---- MODULE Spec2Model ----
(***************************************************************************)
(* A model of tweak.py, the sysctl inspector / advisor / applier.          *)
(*                                                                         *)
(* The OS tunable store (sysctl) and /etc/sysctl.conf are the environment; *)
(* the module-level dictionary original_values is the only program state   *)
(* that outlives a call of main().  The module guards its entry point with *)
(* `if __name__ == "__main__"`, so it can be imported and main() invoked   *)
(* more than once by one process: the model lets a process invoke main()   *)
(* up to MaxRuns times.  The first invocation is the script run.           *)
(*                                                                         *)
(* Strings returned by sysctl are sequences of one-character strings, so   *)
(* that int() and f"{value}" are computed digit by digit.                  *)
(***************************************************************************)
EXTENDS Integers, Sequences, FiniteSets, TLC

VARIABLES
    live,              \* the OS tunable store: name -> string
    conf,              \* /etc/sysctl.conf: sequence of lines
    original_values,   \* tweak.py:8, the dict as a function name -> string
    original_keys,     \* tweak.py:8, the dict's keys in insertion order
    args,              \* argparse namespace: try, keep, revert
    cpu_info,          \* (model, cores, smt) or <<>> before inspection
    memory_info,       \* (physmem, usermem) or <<>>
    network_settings,  \* (tcp_sendspace, tcp_recvspace) or <<>>
    benchmarks,        \* which benchmark tables this run has produced
    recommendations,   \* the list built by suggest_tweaks
    idx,               \* position of the running for loop (1-based)
    current_value,     \* suggest_tweaks' local current_value
    pc,                \* position of the process
    runs,              \* number of invocations of main() so far
    envs,              \* number of changes made by other writers of the store
    fails,             \* number of failed sysctl -w so far
    writes,            \* history: write attempts of this run, in order
    conf0,             \* history: conf when this run started
    live0,             \* history: live when this run left inspection
    table0,            \* history: original_values when this run left inspection
    firstPre,          \* history: name -> live value just before its first write
    save_failed        \* history: index of the recommendation whose append failed

vars == <<live, conf, original_values, original_keys, args, cpu_info,
          memory_info, network_settings, benchmarks, recommendations, idx,
          current_value, pc, runs, envs, fails, writes, conf0, live0, table0,
          firstPre, save_failed>>

----------------------------------------------------------------------------
(* Bounds of the model. *)

\* invocations of main() by one process
MaxRuns == 2
\* changes of the store by other writers
MaxEnv == 1
\* failed sysctl -w commands per process
MaxWriteFail == 1
\* core counts 0..MaxCores in the advisor's input space
MaxCores == 4
\* readings within Delta of each threshold in the advisor's input space
Delta == 1

----------------------------------------------------------------------------
(* Strings, int() and f"{value}". *)

Digits == <<"0", "1", "2", "3", "4", "5", "6", "7", "8", "9">>

DigitVal(c) == (CHOOSE d \in 1..10 : Digits[d] = c) - 1

IsDigit(c) == \E d \in 1..10 : Digits[d] = c

\* f"{value}" of a non-negative int
RECURSIVE IntToStr(_)
IntToStr(n) ==
    IF n < 10 THEN <<Digits[n + 1]>>
    ELSE Append(IntToStr(n \div 10), Digits[(n % 10) + 1])

\* int(s) succeeds: s (already stripped by run_command) is a decimal numeral
IsIntLiteral(s) == Len(s) > 0 /\ \A i \in 1..Len(s) : IsDigit(s[i])

\* int(s)
RECURSIVE ParseInt(_)
ParseInt(s) ==
    IF Len(s) = 0 THEN 0
    ELSE ParseInt(SubSeq(s, 1, Len(s) - 1)) * 10 + DigitVal(s[Len(s)])

\* 1024 ** 2
MB == 1048576

\* int(s) // (1024 ** 2), by long division: the pair <<q, r>> stands for the
\* number q * MB + r, so that byte counts beyond 2^31 are never formed.
RECURSIVE DivMB(_)
DivMB(s) ==
    IF Len(s) = 0 THEN <<0, 0>>
    ELSE LET p   == DivMB(SubSeq(s, 1, Len(s) - 1))
             r10 == p[2] * 10 + DigitVal(s[Len(s)])
         IN  <<p[1] * 10 + (r10 \div MB), r10 % MB>>

ParseMB(s) == DivMB(s)[1]

----------------------------------------------------------------------------
(* The tunables. *)

Names == {"hw.model", "hw.ncpu", "hw.smt", "hw.physmem", "hw.usermem",
          "net.inet.tcp.sendspace", "net.inet.tcp.recvspace",
          "kern.sched.quantum", "kern.maxvnodes", "kern.bufcachepercent",
          "kern.somaxconn"}

\* get_sysctl(name): run_command("sysctl -n name"), the stripped stdout
get_sysctl(name) == live[name]

\* the line save_sysctl writes: f"{name}={value}\n"
ConfLine(name, value) == <<name, "=", IntToStr(value), "\n">>

RECURSIVE ConfLines(_)
ConfLines(recs) ==
    IF recs = <<>> THEN <<>>
    ELSE <<ConfLine(recs[1][1], recs[1][2])>> \o ConfLines(Tail(recs))

----------------------------------------------------------------------------
(* suggest_tweaks, lines 93-114: the recommendation list. *)

\* the list with the core-count test off by one (cores >= 2)
RecommendationsGe(cores, smt, physmem, tcp_sendspace, tcp_recvspace) ==
    LET r1 == IF cores >= 2 THEN <<<<"kern.sched.quantum", 10>>>> ELSE <<>>
        r2 == IF smt = <<"1">> THEN Append(r1, <<"hw.smt", 0>>) ELSE r1
        r3 == IF physmem >= 4096
              THEN Append(r2, <<"kern.maxvnodes", 250000>>)
              ELSE Append(r2, <<"kern.bufcachepercent", 15>>)
        r4 == IF tcp_sendspace < 65536
              THEN Append(r3, <<"net.inet.tcp.sendspace", 65536>>) ELSE r3
        r5 == IF tcp_recvspace < 65536
              THEN Append(r4, <<"net.inet.tcp.recvspace", 65536>>) ELSE r4
    IN  Append(r5, <<"kern.somaxconn", 1024>>)

Recommendations(cores, smt, physmem, tcp_sendspace, tcp_recvspace) ==
    LET r1 == IF cores > 2 THEN <<<<"kern.sched.quantum", 10>>>> ELSE <<>>
        r2 == IF smt = <<"1">> THEN Append(r1, <<"hw.smt", 0>>) ELSE r1
        r3 == IF physmem >= 4096
              THEN Append(r2, <<"kern.maxvnodes", 250000>>)
              ELSE Append(r2, <<"kern.bufcachepercent", 15>>)
        r4 == IF tcp_sendspace < 65536
              THEN Append(r3, <<"net.inet.tcp.sendspace", 65536>>) ELSE r3
        r5 == IF tcp_recvspace < 65536
              THEN Append(r4, <<"net.inet.tcp.recvspace", 65536>>) ELSE r4
    IN  Append(r5, <<"kern.somaxconn", 1024>>)

----------------------------------------------------------------------------
(* The initial stores. *)

Store(ncpu, smt, physmem, usermem, sendspace, recvspace) ==
    [n \in Names |->
        CASE n = "hw.model" -> <<"c", "p", "u">>
          [] n = "hw.ncpu" -> ncpu
          [] n = "hw.smt" -> smt
          [] n = "hw.physmem" -> physmem
          [] n = "hw.usermem" -> usermem
          [] n = "net.inet.tcp.sendspace" -> sendspace
          [] n = "net.inet.tcp.recvspace" -> recvspace
          [] n = "kern.sched.quantum" -> IntToStr(100)
          [] n = "kern.maxvnodes" -> IntToStr(100000)
          [] n = "kern.bufcachepercent" -> IntToStr(20)
          [] OTHER -> IntToStr(128)]

\* 8192 MB, 4096 MB, 2048 MB and 6000 MB, in bytes
Bytes8192 == <<"8", "5", "8", "9", "9", "3", "4", "5", "9", "2">>
Bytes4096 == <<"4", "2", "9", "4", "9", "6", "7", "2", "9", "6">>
Bytes2048 == <<"2", "1", "4", "7", "4", "8", "3", "6", "4", "8">>
Bytes6000 == <<"6", "2", "9", "1", "4", "5", "6", "0", "0", "0">>

\* The machines a run can start on: the two scenarios of the specification,
\* a machine at the memory threshold, and three machines on which one of
\* the inspected tunables does not exist (sysctl -n prints nothing).
Machines ==
    { Store(IntToStr(4), <<"1">>, Bytes8192, Bytes6000, IntToStr(16384), IntToStr(16384)),
      Store(IntToStr(1), <<"0">>, Bytes2048, Bytes2048, IntToStr(65536), IntToStr(65536)),
      Store(IntToStr(2), <<"1">>, Bytes4096, Bytes2048, IntToStr(16384), IntToStr(65536)),
      Store(<<>>, <<"0">>, Bytes4096, Bytes2048, IntToStr(16384), IntToStr(16384)),
      Store(IntToStr(4), <<>>, Bytes4096, <<>>, IntToStr(16384), IntToStr(16384)),
      Store(IntToStr(4), <<>>, Bytes2048, Bytes2048, IntToStr(16384), <<"n", "o">>) }

\* What /etc/sysctl.conf holds before the process starts: a line that a run
\* with --keep will append again.
InitialConfs == { <<ConfLine("kern.somaxconn", 1024)>> }

\* What another writer (an administrator, another tool) can set meanwhile.
EnvWrites == { <<"net.inet.tcp.sendspace", IntToStr(32768)>>,
               <<"kern.somaxconn", IntToStr(256)>> }

NoArgs == [try |-> FALSE, keep |-> FALSE, revert |-> FALSE]

Init ==
    /\ live \in Machines
    /\ conf \in InitialConfs
    /\ original_values = <<>>
    /\ original_keys = <<>>
    /\ args = NoArgs
    /\ cpu_info = <<>>
    /\ memory_info = <<>>
    /\ network_settings = <<>>
    /\ benchmarks = <<>>
    /\ recommendations = <<>>
    /\ idx = 0
    /\ current_value = <<>>
    /\ pc = "idle"
    /\ runs = 0
    /\ envs = 0
    /\ fails = 0
    /\ writes = <<>>
    /\ conf0 = conf
    /\ live0 = live
    /\ table0 = <<>>
    /\ firstPre = <<>>
    /\ save_failed = 0

----------------------------------------------------------------------------
(* The environment. *)

\* Another writer changes a tunable.  The program spends its time in the
\* benchmarks and between invocations; the store is taken to change there,
\* and not between the read and the write of one loop iteration.
EnvChange ==
    /\ pc \in {"idle", "bench_pre"}
    /\ envs < MaxEnv
    /\ \E w \in EnvWrites :
          /\ live[w[1]] # w[2]
          /\ live' = [live EXCEPT ![w[1]] = w[2]]
    /\ envs' = envs + 1
    /\ UNCHANGED <<conf, original_values, original_keys, args, cpu_info,
                   memory_info, network_settings, benchmarks, recommendations,
                   idx, current_value, pc, runs, fails, writes, conf0, live0,
                   table0, firstPre, save_failed>>

----------------------------------------------------------------------------
(* main, lines 130-146: argument parsing and inspection. *)

\* main() is entered with some combination of --try, --keep, --revert
Invoke ==
    /\ pc = "idle"
    /\ runs < MaxRuns
    /\ \E t \in BOOLEAN, k \in BOOLEAN, r \in BOOLEAN :
          args' = [try |-> t, keep |-> k, revert |-> r]
    /\ runs' = runs + 1
    /\ pc' = "cpu"
    /\ conf0' = conf
    /\ live0' = live
    /\ table0' = original_values
    /\ UNCHANGED <<live, conf, original_values, original_keys, cpu_info,
                   memory_info, network_settings, benchmarks, recommendations,
                   idx, current_value, envs, fails, writes, firstPre,
                   save_failed>>

\* get_cpu_info: int() of a non-numeral raises ValueError, which nothing catches
get_cpu_info ==
    /\ pc = "cpu"
    /\ IF IsIntLiteral(get_sysctl("hw.ncpu"))
       THEN /\ cpu_info' = <<get_sysctl("hw.model"),
                             ParseInt(get_sysctl("hw.ncpu")),
                             get_sysctl("hw.smt")>>
            /\ pc' = "mem"
       ELSE /\ pc' = "crashed"
            /\ UNCHANGED cpu_info
    /\ UNCHANGED <<live, conf, original_values, original_keys, args,
                   memory_info, network_settings, benchmarks, recommendations,
                   idx, current_value, runs, envs, fails, writes, conf0, live0,
                   table0, firstPre, save_failed>>

get_memory_info ==
    /\ pc = "mem"
    /\ IF /\ IsIntLiteral(get_sysctl("hw.physmem"))
          /\ IsIntLiteral(get_sysctl("hw.usermem"))
       THEN /\ memory_info' = <<ParseMB(get_sysctl("hw.physmem")),
                                ParseMB(get_sysctl("hw.usermem"))>>
            /\ pc' = "net"
       ELSE /\ pc' = "crashed"
            /\ UNCHANGED memory_info
    /\ UNCHANGED <<live, conf, original_values, original_keys, args, cpu_info,
                   network_settings, benchmarks, recommendations, idx,
                   current_value, runs, envs, fails, writes, conf0, live0,
                   table0, firstPre, save_failed>>

get_network_settings ==
    /\ pc = "net"
    /\ IF /\ IsIntLiteral(get_sysctl("net.inet.tcp.sendspace"))
          /\ IsIntLiteral(get_sysctl("net.inet.tcp.recvspace"))
       THEN /\ network_settings' =
                  <<ParseInt(get_sysctl("net.inet.tcp.sendspace")),
                    ParseInt(get_sysctl("net.inet.tcp.recvspace"))>>
            /\ pc' = "bench_pre"
       ELSE /\ pc' = "crashed"
            /\ UNCHANGED network_settings
    /\ UNCHANGED <<live, conf, original_values, original_keys, args, cpu_info,
                   memory_info, benchmarks, recommendations, idx,
                   current_value, runs, envs, fails, writes, conf0, live0,
                   table0, firstPre, save_failed>>

----------------------------------------------------------------------------
(* main, lines 148-163: the first benchmark and the revert / suggest branch. *)

\* the branch with --try taking precedence over --revert
AfterInspectUnlessTry(a) ==
    IF a.revert /\ ~a.try THEN "revert" ELSE "suggest"

\* if args.revert: ... else: ...
AfterInspect(a) == IF a.revert THEN "revert" ELSE "suggest"

\* if args.try: pre_benchmarks = benchmark_system(); then the branch
PreBenchmark ==
    /\ pc = "bench_pre"
    /\ benchmarks' = IF args.try THEN <<"pre">> ELSE <<>>
    /\ pc' = AfterInspect(args)
    /\ idx' = 1
    /\ live0' = live
    /\ table0' = original_values
    /\ UNCHANGED <<live, conf, original_values, original_keys, args, cpu_info,
                   memory_info, network_settings, recommendations,
                   current_value, runs, envs, fails, writes, conf0, firstPre,
                   save_failed>>

----------------------------------------------------------------------------
(* set_sysctl, lines 15-19, and the history of write attempts. *)

\* The store after `sysctl -w name=value`: a failed command changes nothing.
set_sysctl(name, value, ok) ==
    IF ok THEN [live EXCEPT ![name] = value] ELSE live

\* One call of set_sysctl(name, value): the command may fail (returncode # 0);
\* the result is printed and never raised.
DoSet(name, value) ==
    \E ok \in BOOLEAN :
        /\ ok \/ fails < MaxWriteFail
        /\ live' = set_sysctl(name, value, ok)
        /\ fails' = IF ok THEN fails ELSE fails + 1
        /\ writes' = Append(writes, [name |-> name, value |-> value, ok |-> ok])
        /\ firstPre' = IF name \in DOMAIN firstPre THEN firstPre
                       ELSE [n \in DOMAIN firstPre \cup {name} |->
                                IF n = name THEN live[name] ELSE firstPre[n]]

----------------------------------------------------------------------------
(* suggest_tweaks, lines 87-128. *)

sysctl_name == recommendations[idx][1]

suggested_value == recommendations[idx][2]

\* lines 89-117: unpack the readings and build the list
Suggest ==
    /\ pc = "suggest"
    /\ recommendations' = Recommendations(cpu_info[2], cpu_info[3],
                                          memory_info[1],
                                          network_settings[1],
                                          network_settings[2])
    /\ idx' = 1
    /\ pc' = "read"
    /\ UNCHANGED <<live, conf, original_values, original_keys, args, cpu_info,
                   memory_info, network_settings, benchmarks, current_value,
                   runs, envs, fails, writes, conf0, live0, table0, firstPre,
                   save_failed>>

\* the loop goes to its next recommendation, or suggest_tweaks returns to main
NextIteration ==
    /\ idx' = idx + 1
    /\ pc' = IF idx < Len(recommendations) THEN "read"
             ELSE IF args.try THEN "bench_post" ELSE "done"

\* lines 119-121: re-read the live value, print it, test try_flag
ReadCurrent ==
    /\ pc = "read"
    /\ current_value' = get_sysctl(sysctl_name)
    /\ IF args.try
       THEN pc' = "capture" /\ UNCHANGED idx
       ELSE NextIteration
    /\ UNCHANGED <<live, conf, original_values, original_keys, args, cpu_info,
                   memory_info, network_settings, benchmarks, recommendations,
                   runs, envs, fails, writes, conf0, live0, table0, firstPre,
                   save_failed>>

\* the dict after original_values[name] = value
Record(name, value) ==
    /\ original_values' =
          [n \in DOMAIN original_values \cup {name} |->
              IF n = name THEN value ELSE original_values[n]]
    /\ original_keys' = IF name \in DOMAIN original_values THEN original_keys
                        ELSE Append(original_keys, name)

\* the capture without its `not in original_values` test
CaptureOverwrite ==
    /\ pc = "capture"
    /\ Record(sysctl_name, current_value)
    /\ pc' = "write"
    /\ UNCHANGED <<live, conf, args, cpu_info, memory_info, network_settings,
                   benchmarks, recommendations, idx, current_value, runs, envs,
                   fails, writes, conf0, live0, table0, firstPre, save_failed>>

\* the capture recording the reading passed in by main instead of the re-read
CapturePassedIn ==
    /\ pc = "capture"
    /\ IF sysctl_name \notin DOMAIN original_values
       THEN Record(sysctl_name,
                   CASE sysctl_name = "net.inet.tcp.sendspace" ->
                            IntToStr(network_settings[1])
                     [] sysctl_name = "net.inet.tcp.recvspace" ->
                            IntToStr(network_settings[2])
                     [] sysctl_name = "hw.smt" -> cpu_info[3]
                     [] OTHER -> current_value)
       ELSE UNCHANGED <<original_values, original_keys>>
    /\ pc' = "write"
    /\ UNCHANGED <<live, conf, args, cpu_info, memory_info, network_settings,
                   benchmarks, recommendations, idx, current_value, runs, envs,
                   fails, writes, conf0, live0, table0, firstPre, save_failed>>

\* lines 123-124: record the original value, once per name
Capture ==
    /\ pc = "capture"
    /\ IF sysctl_name \notin DOMAIN original_values
       THEN Record(sysctl_name, current_value)
       ELSE UNCHANGED <<original_values, original_keys>>
    /\ pc' = "write"
    /\ UNCHANGED <<live, conf, args, cpu_info, memory_info, network_settings,
                   benchmarks, recommendations, idx, current_value, runs, envs,
                   fails, writes, conf0, live0, table0, firstPre, save_failed>>

\* the persistence step taken whatever keep_flag says
AfterWriteAlways(a) == "save"

\* line 127: if keep_flag
AfterWrite(a) == IF a.keep THEN "save" ELSE "next"

\* lines 126-127: apply the tweak, then test keep_flag
Write ==
    /\ pc = "write"
    /\ DoSet(sysctl_name, IntToStr(suggested_value))
    /\ IF AfterWrite(args) = "save"
       THEN pc' = "save" /\ UNCHANGED idx
       ELSE NextIteration
    /\ UNCHANGED <<conf, original_values, original_keys, args, cpu_info,
                   memory_info, network_settings, benchmarks, recommendations,
                   current_value, runs, envs, conf0, live0, table0,
                   save_failed>>

\* a persistence step that skips a line the file already holds
SaveDedup ==
    /\ pc = "save"
    /\ \E ok \in BOOLEAN :
          IF ok
          THEN /\ conf' = IF \E j \in 1..Len(conf) :
                                conf[j] = ConfLine(sysctl_name, suggested_value)
                           THEN conf
                           ELSE Append(conf, ConfLine(sysctl_name, suggested_value))
               /\ NextIteration
               /\ UNCHANGED save_failed
          ELSE /\ pc' = "crashed"
               /\ save_failed' = idx
               /\ UNCHANGED <<conf, idx>>
    /\ UNCHANGED <<live, original_values, original_keys, args, cpu_info,
                   memory_info, network_settings, benchmarks, recommendations,
                   current_value, runs, envs, fails, writes, conf0, live0,
                   table0, firstPre>>

\* line 128, save_sysctl (lines 25-28): open(..., "a") or write may raise
\* OSError, which nothing catches
Save ==
    /\ pc = "save"
    /\ \E ok \in BOOLEAN :
          IF ok
          THEN /\ conf' = Append(conf, ConfLine(sysctl_name, suggested_value))
               /\ NextIteration
               /\ UNCHANGED save_failed
          ELSE /\ pc' = "crashed"
               /\ save_failed' = idx
               /\ UNCHANGED <<conf, idx>>
    /\ UNCHANGED <<live, original_values, original_keys, args, cpu_info,
                   memory_info, network_settings, benchmarks, recommendations,
                   current_value, runs, envs, fails, writes, conf0, live0,
                   table0, firstPre>>

----------------------------------------------------------------------------
(* main, lines 155-159, and revert_sysctl, lines 30-33. *)

\* a revert that writes back the value just read instead of the recorded one
RevertStepCurrent ==
    /\ pc = "revert"
    /\ idx <= Len(original_keys)
    /\ DoSet(original_keys[idx], get_sysctl(original_keys[idx]))
    /\ idx' = idx + 1
    /\ UNCHANGED <<conf, original_values, original_keys, args, cpu_info,
                   memory_info, network_settings, benchmarks, recommendations,
                   current_value, pc, runs, envs, conf0, live0, table0,
                   save_failed>>

\* one iteration of the loop over original_values.keys()
RevertStep ==
    /\ pc = "revert"
    /\ idx <= Len(original_keys)
    /\ IF original_keys[idx] \in DOMAIN original_values
       THEN DoSet(original_keys[idx], original_values[original_keys[idx]])
       ELSE UNCHANGED <<live, fails, writes, firstPre>>
    /\ idx' = idx + 1
    /\ UNCHANGED <<conf, original_values, original_keys, args, cpu_info,
                   memory_info, network_settings, benchmarks, recommendations,
                   current_value, pc, runs, envs, conf0, live0, table0,
                   save_failed>>

\* the loop is exhausted: main returns
RevertDone ==
    /\ pc = "revert"
    /\ idx > Len(original_keys)
    /\ pc' = "done"
    /\ UNCHANGED <<live, conf, original_values, original_keys, args, cpu_info,
                   memory_info, network_settings, benchmarks, recommendations,
                   idx, current_value, runs, envs, fails, writes, conf0, live0,
                   table0, firstPre, save_failed>>

----------------------------------------------------------------------------
(* main, lines 165-178, and the return to the caller. *)

\* post_benchmarks = benchmark_system() and the comparison table
PostBenchmark ==
    /\ pc = "bench_post"
    /\ benchmarks' = Append(benchmarks, "post")
    /\ pc' = "done"
    /\ UNCHANGED <<live, conf, original_values, original_keys, args, cpu_info,
                   memory_info, network_settings, recommendations, idx,
                   current_value, runs, envs, fails, writes, conf0, live0,
                   table0, firstPre, save_failed>>

\* main() has returned; its locals are gone, original_values stays
Return ==
    /\ pc = "done"
    /\ runs < MaxRuns
    /\ pc' = "idle"
    /\ args' = NoArgs
    /\ cpu_info' = <<>>
    /\ memory_info' = <<>>
    /\ network_settings' = <<>>
    /\ benchmarks' = <<>>
    /\ recommendations' = <<>>
    /\ idx' = 0
    /\ current_value' = <<>>
    /\ writes' = <<>>
    /\ conf0' = conf
    /\ live0' = live
    /\ table0' = original_values
    /\ UNCHANGED <<live, conf, original_values, original_keys, runs, envs,
                   fails, firstPre, save_failed>>

Next ==
    \/ EnvChange
    \/ Invoke
    \/ get_cpu_info
    \/ get_memory_info
    \/ get_network_settings
    \/ PreBenchmark
    \/ Suggest
    \/ ReadCurrent
    \/ Capture
    \/ Write
    \/ Save
    \/ RevertStep
    \/ RevertDone
    \/ PostBenchmark
    \/ Return

Spec == Init /\ [][Next]_vars

----------------------------------------------------------------------------
(* The advisor alone: suggest_tweaks' list over a space of readings. *)

AdvisorStore ==
    Store(IntToStr(4), <<"1">>, Bytes8192, Bytes6000, IntToStr(16384),
          IntToStr(16384))

InitAdvisor ==
    /\ live = AdvisorStore
    /\ conf = <<>>
    /\ original_values = <<>>
    /\ original_keys = <<>>
    /\ args = NoArgs
    /\ cpu_info \in {<<"cpu">>} \X (0..MaxCores) \X {<<"0">>, <<"1">>, <<>>}
    /\ memory_info \in
          ({2048, 8192} \cup ((4096 - Delta)..(4096 + Delta))) \X {6000}
    /\ network_settings \in
          ({16384} \cup ((65536 - Delta)..(65536 + Delta)))
          \X ({16384} \cup ((65536 - Delta)..(65536 + Delta)))
    /\ benchmarks = <<>>
    /\ recommendations = <<>>
    /\ idx = 0
    /\ current_value = <<>>
    /\ pc = "suggest"
    /\ runs = 1
    /\ envs = 0
    /\ fails = 0
    /\ writes = <<>>
    /\ conf0 = conf
    /\ live0 = live
    /\ table0 = <<>>
    /\ firstPre = <<>>
    /\ save_failed = 0

NextAdvisor == Suggest

SpecAdvisor == InitAdvisor /\ [][NextAdvisor]_vars

----------------------------------------------------------------------------
(* Properties. *)

Terminated == pc \in {"done", "crashed"}

\* the run has left inspection and the first benchmark
PastInspection ==
    pc \in {"suggest", "read", "capture", "write", "save", "revert",
            "bench_post", "done"}

WriteNames == [j \in 1..Len(writes) |-> writes[j].name]

RecNames == [j \in 1..Len(recommendations) |-> recommendations[j][1]]

\* the write attempts of this run are one per recommendation, in order, each
\* of the suggested value
WritesFollowRecommendations ==
    /\ Len(writes) = Len(recommendations)
    /\ \A j \in 1..Len(writes) :
          /\ writes[j].name = recommendations[j][1]
          /\ writes[j].value = IntToStr(recommendations[j][2])

\* C1: an entry of the original-value table is never overwritten or removed:
\* every step leaves each recorded name with the value of its first capture.
C1_FirstCaptureKept ==
    [][\A n \in DOMAIN original_values :
          /\ n \in DOMAIN original_values'
          /\ original_values'[n] = original_values[n]]_vars

\* a name captured by an earlier run is about to be applied again, its live
\* value now different from the recorded one
C1_Witness ==
    /\ pc = "write"
    /\ runs >= 2
    /\ sysctl_name \in DOMAIN table0
    /\ original_values[sysctl_name] # current_value

\* C2: revert issues one write per name of the table, of exactly the captured
\* value; names outside the table keep their live value; the table is unchanged.
C2_RevertRestoresCaptured ==
    (args.revert /\ pc \in {"revert", "done"}) =>
        /\ original_values = table0
        /\ Len(original_keys) = Cardinality(DOMAIN original_values)
        /\ {original_keys[j] : j \in 1..Len(original_keys)} = DOMAIN original_values
        /\ Len(writes) = idx - 1
        /\ pc = "done" => Len(writes) = Len(original_keys)
        /\ \A j \in 1..Len(writes) :
              /\ writes[j].name = original_keys[j]
              /\ writes[j].value = original_values[original_keys[j]]
              /\ live[original_keys[j]] =
                    IF writes[j].ok THEN original_values[original_keys[j]]
                    ELSE live0[original_keys[j]]
        /\ \A n \in Names \ DOMAIN original_values : live[n] = live0[n]

\* a revert has ended that restored a changed tunable
C2_Witness ==
    /\ pc = "done"
    /\ args.revert
    /\ \E j \in 1..Len(writes) :
          /\ writes[j].ok
          /\ live0[writes[j].name] # live[writes[j].name]
    /\ \E n \in Names : n \notin DOMAIN original_values

\* the rules of the advisor in their fixed order
RuleOrder ==
    << <<"kern.sched.quantum", 10>>, <<"hw.smt", 0>>,
       <<"kern.maxvnodes", 250000>>, <<"kern.bufcachepercent", 15>>,
       <<"net.inet.tcp.sendspace", 65536>>,
       <<"net.inet.tcp.recvspace", 65536>>, <<"kern.somaxconn", 1024>> >>

\* whether the rule recommending r applies to the readings
Fires(r) ==
    CASE r[1] = "kern.sched.quantum" -> cpu_info[2] > 2
      [] r[1] = "hw.smt" -> cpu_info[3] = <<"1">>
      [] r[1] = "kern.maxvnodes" -> memory_info[1] >= 4096
      [] r[1] = "kern.bufcachepercent" -> ~(memory_info[1] >= 4096)
      [] r[1] = "net.inet.tcp.sendspace" -> network_settings[1] < 65536
      [] r[1] = "net.inet.tcp.recvspace" -> network_settings[2] < 65536
      [] OTHER -> TRUE

Scenario1 ==
    /\ cpu_info[2] = 4 /\ cpu_info[3] = <<"1">>
    /\ memory_info = <<8192, 6000>>
    /\ network_settings = <<16384, 16384>>

Scenario2 ==
    /\ cpu_info[2] = 1 /\ cpu_info[3] = <<"0">>
    /\ memory_info[1] = 2048
    /\ network_settings = <<65536, 65536>>

\* C3: the list suggest_tweaks builds is the fixed-order list of the rules
\* that apply to the readings, each rule on its own; the two scenarios of the
\* specification give the lists it states.
C3_RecommendationsMatchRules ==
    pc = "read" =>
        /\ recommendations = SelectSeq(RuleOrder, Fires)
        /\ recommendations[Len(recommendations)] = <<"kern.somaxconn", 1024>>
        /\ Scenario1 =>
              recommendations =
                 << <<"kern.sched.quantum", 10>>, <<"hw.smt", 0>>,
                    <<"kern.maxvnodes", 250000>>,
                    <<"net.inet.tcp.sendspace", 65536>>,
                    <<"net.inet.tcp.recvspace", 65536>>,
                    <<"kern.somaxconn", 1024>> >>
        /\ Scenario2 =>
              recommendations =
                 << <<"kern.bufcachepercent", 15>>, <<"kern.somaxconn", 1024>> >>

\* the list has been built for the readings of the first scenario
C3_Witness == pc = "read" /\ Scenario1 /\ Len(recommendations) = 6

\* C4 as stated: once a live write has failed, the run still ends with exactly
\* one write attempt per recommendation.
C4_EveryRecommendationWritten ==
    (/\ Terminated
     /\ args.try
     /\ recommendations # <<>>
     /\ \E j \in 1..Len(writes) : ~writes[j].ok)
        => WriteNames = RecNames

\* C5 as stated: a finished run with apply and without persist has updated the
\* live store and left the file alone; one with persist and without apply has
\* changed neither.
C5_FileNeedsBothFlags ==
    /\ conf # conf0 => (args.try /\ args.keep)
    /\ (pc = "done" /\ args.try /\ ~args.keep) =>
          (writes # <<>> /\ conf = conf0)
    /\ (pc = "done" /\ args.keep /\ ~args.try) =>
          (writes = <<>> /\ conf = conf0)

\* C5 amended: the same of the runs without --revert, in which the file is
\* appended to only with both flags set; with apply alone every recommendation
\* gets its live write (a successful one leaves the suggested value live) and
\* the file is unchanged; without apply nothing is written or appended.
C5_FileNeedsBothFlagsNoRevert ==
    /\ conf # conf0 => (args.try /\ args.keep /\ ~args.revert)
    /\ (pc = "done" /\ args.try /\ ~args.keep /\ ~args.revert) =>
          /\ writes # <<>>
          /\ WritesFollowRecommendations
          /\ \A j \in 1..Len(writes) :
                writes[j].ok => live[writes[j].name] = writes[j].value
          /\ conf = conf0
    /\ (PastInspection /\ ~args.try /\ ~args.revert) =>
          (writes = <<>> /\ conf = conf0 /\ live = live0)

\* an apply-only run has ended with a tunable changed and the file as it was
C5_Witness ==
    /\ pc = "done"
    /\ args.try /\ ~args.keep /\ ~args.revert
    /\ conf = conf0
    /\ \E j \in 1..Len(writes) :
          writes[j].ok /\ live[writes[j].name] # live0[writes[j].name]

\* C6 as stated: a finished run with apply and persist has updated the live
\* store and left the file as its initial content plus one line per
\* recommendation.
C6_FileGainsEveryLine ==
    (pc = "done" /\ args.try /\ args.keep) =>
        /\ writes # <<>>
        /\ conf = conf0 \o ConfLines(recommendations)

\* C6 amended: the same of the runs without --revert; and at every point of
\* every run the file is its initial content followed by the lines of the
\* recommendations persisted so far, a prefix of the list in display order.
C6_FileGainsEveryLineNoRevert ==
    /\ \E k \in 0..Len(recommendations) :
          conf = conf0 \o ConfLines(SubSeq(recommendations, 1, k))
    /\ (pc = "done" /\ args.try /\ args.keep /\ ~args.revert) =>
          /\ WritesFollowRecommendations
          /\ writes # <<>>
          /\ conf = conf0 \o ConfLines(recommendations)

\* an apply-and-persist run has ended on a file that already held one of the
\* lines it appends
C6_Witness ==
    /\ pc = "done"
    /\ args.try /\ args.keep /\ ~args.revert
    /\ conf0 # <<>>
    /\ conf[Len(conf)] = conf0[1]
    /\ Len(conf) = Len(conf0) + Len(recommendations)

\* C7: a run with --revert builds no recommendation list and appends nothing;
\* in the first run of a process, whose table is empty, it issues no write, so
\* the live store and the file are as the run found them.
C7_RevertRunIsInert ==
    args.revert =>
        /\ recommendations = <<>>
        /\ conf = conf0
        /\ pc \notin {"suggest", "read", "capture", "write", "save", "bench_post"}
        /\ runs = 1 =>
              /\ original_values = <<>>
              /\ writes = <<>>
              /\ PastInspection => live = live0

\* a first run with all three flags has ended
C7_Witness ==
    /\ pc = "done"
    /\ runs = 1
    /\ args.revert /\ args.try /\ args.keep

\* C8 as stated: after a failed append the remaining recommendations are still
\* processed, so the run ends with every recommendation written.
C8_AppendFailureIsLocal ==
    (Terminated /\ save_failed > 0) => WriteNames = RecNames

\* C9 as stated: whatever the primitives return, no run ends abnormally.
C9_NoAbnormalTermination == pc # "crashed"

\* C10: when the write of a name is issued its original value is already
\* recorded, and the recorded value is the one the store held just before the
\* first write of that name, which is the value re-read in that iteration.
C10_CaptureBeforeWrite ==
    /\ pc = "write" => sysctl_name \in DOMAIN original_values
    /\ \A n \in DOMAIN firstPre :
          /\ n \in DOMAIN original_values
          /\ original_values[n] = firstPre[n]
    /\ (pc = "write" /\ sysctl_name \notin DOMAIN firstPre) =>
          /\ original_values[sysctl_name] = current_value
          /\ current_value = get_sysctl(sysctl_name)

\* the send buffer is about to be written for the first time, its recorded
\* value differing from the one the inspector read earlier
C10_Witness ==
    /\ pc = "write"
    /\ sysctl_name = "net.inet.tcp.sendspace"
    /\ sysctl_name \notin DOMAIN firstPre
    /\ original_values[sysctl_name] # IntToStr(network_settings[1])

====
